---- MODULE Spec2Model ----
(***************************************************************************)
(* Model of the memory-backed assistant script (src/README.md, the script  *)
(* lines 74-129) and of the GPTHistory class it drives                     *)
(* (src/GPTHistory.ts).                                                    *)
(*                                                                         *)
(* Text is a sequence of tokens.  A token is one character ("H", " ",      *)
(* "\n", ...) for every text that comes from outside the program (the      *)
(* command line, the memory file, the provider's replies) and for the      *)
(* fallback memory literal; the fixed pieces of the prompt templates and   *)
(* of JSON.stringify's object syntax are one token each, spelled as in the *)
(* source.  A character that a string of this language cannot spell is     *)
(* the token that names its code point: "U+0008" is the backspace,         *)
(* "U+00A0" the no-break space.  Texts are well-formed: a string holding   *)
(* half of a surrogate pair is not among them.                             *)
(***************************************************************************)
EXTENDS Integers, Sequences, FiniteSets, TLC

(***************************************************************************)
(* Bounds                                                                  *)
(***************************************************************************)
\* Number of processes (invocations of the script) run one after another.
MaxRuns == 2

\* Number of times the scheduler passes from one of two overlapping
\* processes to the other.
MaxSwitches == 3

\* Number of sendSnippet calls a caller makes on one GPTHistory object.
MaxCalls == 3

\* Number of tokens after which a write to memory.json can stop short: a
\* write takes all the tokens left, or this many of them.
WriteCut == 6

(***************************************************************************)
(* JavaScript values and string functions                                  *)
(***************************************************************************)
\* A JavaScript value as far as the program sees one: a string, undefined, or
\* another value JSON.parse can put in a field: null, a number (an integer
\* here), a boolean, an object (of its fields the program looks at one,
\* toString, and only at whether the object has it) or an array of values.
JsString(s) == [type |-> "string", value |-> s]
JsUndefined == [type |-> "undefined", value |-> <<>>]
JsNull == [type |-> "null", value |-> <<>>]
JsNumber(n) == [type |-> "number", value |-> n]
JsBoolean(b) == [type |-> "boolean", value |-> b]
JsObject(hasToString) == [type |-> "object", value |-> hasToString]
JsArray(elements) == [type |-> "array", value |-> elements]

\* The characters String.prototype.trim removes: WhiteSpace and
\* LineTerminator of ECMAScript (tab, line feed, vertical tab, form feed,
\* carriage return, space, no-break space, the Unicode space separators, the
\* line and paragraph separators and the byte order mark).
WhiteSpace ==
    {"\t", "\n", "U+000B", "\f", "\r", " ", "U+00A0", "U+1680", "U+2000",
     "U+2001", "U+2002", "U+2003", "U+2004", "U+2005", "U+2006", "U+2007",
     "U+2008", "U+2009", "U+200A", "U+2028", "U+2029", "U+202F", "U+205F",
     "U+3000", "U+FEFF"}

RECURSIVE TrimStart(_)
TrimStart(s) ==
    IF s # <<>> /\ Head(s) \in WhiteSpace THEN TrimStart(Tail(s)) ELSE s

RECURSIVE TrimEnd(_)
TrimEnd(s) ==
    IF s # <<>> /\ s[Len(s)] \in WhiteSpace
    THEN TrimEnd(SubSeq(s, 1, Len(s) - 1))
    ELSE s

\* String.prototype.trim
Trim(s) == TrimEnd(TrimStart(s))

\* The characters U+0000 to U+001F in code point order, and the digits
\* JSON.stringify writes a code point with.
ControlChars ==
    <<"U+0000", "U+0001", "U+0002", "U+0003", "U+0004", "U+0005", "U+0006",
      "U+0007", "U+0008", "\t", "\n", "U+000B", "\f", "\r", "U+000E",
      "U+000F", "U+0010", "U+0011", "U+0012", "U+0013", "U+0014", "U+0015",
      "U+0016", "U+0017", "U+0018", "U+0019", "U+001A", "U+001B", "U+001C",
      "U+001D", "U+001E", "U+001F">>
HexDigits ==
    <<"0", "1", "2", "3", "4", "5", "6", "7", "8", "9", "a", "b", "c", "d",
      "e", "f">>

\* Number.prototype.toString of a natural number and of an integer.
RECURSIVE NaturalText(_)
NaturalText(n) ==
    IF n < 10 THEN <<HexDigits[n + 1]>>
    ELSE NaturalText(n \div 10) \o <<HexDigits[(n % 10) + 1]>>
NumberText(n) == IF n < 0 THEN <<"-">> \o NaturalText(0 - n) ELSE NaturalText(n)

\* Whether ToString of a value throws: it does for an object that has a field
\* toString, which after JSON.parse is never a function (valueOf, its own or
\* inherited, gives no primitive either), and for an array that holds such
\* an object.
RECURSIVE ToStringThrows(_)
ToStringThrows(v) ==
    CASE v.type = "object" -> v.value
      [] v.type = "array" ->
           \E i \in 1..Len(v.value) : ToStringThrows(v.value[i])
      [] OTHER -> FALSE

\* Whether Array.prototype.join throws on an array of values.
JoinThrows(arr) == \E i \in 1..Len(arr) : ToStringThrows(arr[i])

\* What Array.prototype.join writes for one element when it does not throw:
\* undefined and null give "", every other value its ToString, which for an
\* array is its join with a comma and for an object [object Object].
RECURSIVE ElementText(_), Join(_, _)
ElementText(v) ==
    CASE v.type = "string" -> v.value
      [] v.type \in {"undefined", "null"} -> <<>>
      [] v.type = "number" -> NumberText(v.value)
      [] v.type = "boolean" ->
           IF v.value THEN <<"t", "r", "u", "e">> ELSE <<"f", "a", "l", "s", "e">>
      [] v.type = "object" ->
           <<"[", "o", "b", "j", "e", "c", "t", " ", "O", "b", "j", "e", "c",
             "t", "]">>
      [] v.type = "array" -> Join(v.value, <<",">>)

\* Array.prototype.join over an array of values, with separator sep.
Join(arr, sep) ==
    IF arr = <<>> THEN <<>>
    ELSE IF Len(arr) = 1 THEN ElementText(arr[1])
    ELSE ElementText(arr[1]) \o sep \o Join(Tail(arr), sep)

\* JSON.stringify of one character inside a string literal: the quote and
\* the backslash get a backslash, backspace, tab, line feed, form feed and
\* carriage return their letter, every other character below U+0020 its
\* code point in four hexadecimal digits; the rest stays as it is.
JsonEscape(c) ==
    CASE c = "\"" -> <<"\\", "\"">>
      [] c = "\\" -> <<"\\", "\\">>
      [] c = "U+0008" -> <<"\\", "b">>
      [] c = "\t" -> <<"\\", "t">>
      [] c = "\n" -> <<"\\", "n">>
      [] c = "\f" -> <<"\\", "f">>
      [] c = "\r" -> <<"\\", "r">>
      [] OTHER ->
           IF \E n \in 1..Len(ControlChars) : ControlChars[n] = c
           THEN LET code ==
                      (CHOOSE n \in 1..Len(ControlChars) : ControlChars[n] = c)
                      - 1
                IN  <<"\\", "u", "0", "0", HexDigits[(code \div 16) + 1],
                      HexDigits[(code % 16) + 1]>>
           ELSE <<c>>

RECURSIVE JsonEscapeAll(_)
JsonEscapeAll(s) ==
    IF s = <<>> THEN <<>> ELSE JsonEscape(Head(s)) \o JsonEscapeAll(Tail(s))

\* JSON.stringify of a string: the quoted, escaped literal.
JsonQuote(s) == <<"\"">> \o JsonEscapeAll(s) \o <<"\"">>

\* Number of events e in the log ev.
RECURSIVE CountOf(_, _)
CountOf(ev, e) ==
    IF ev = <<>> THEN 0
    ELSE (IF Head(ev) = e THEN 1 ELSE 0) + CountOf(Tail(ev), e)

\* s occurs in t as a contiguous run of tokens.
Contains(t, s) ==
    \E i \in 1..(Len(t) - Len(s) + 1) : SubSeq(t, i, i + Len(s) - 1) = s

(***************************************************************************)
(* GPTHistory (src/GPTHistory.ts)                                          *)
(***************************************************************************)
\* The request object handed to JSON.stringify for the POST body.
RequestData(prompt) ==
    [model |-> "gpt-3.5-turbo",
     messages |-> << [role |-> "user", content |-> prompt] >>]

\* response.choices[0].message.content on the provider's answer: whether the
\* evaluation throws (fetch rejected, JSON.parse rejected the body, or a
\* property was read off undefined), and the value it gives otherwise:
\* whatever value the field holds, of whatever type, undefined when the
\* message has no such field.  The status of the answer is not looked at.
FirstContent(http) ==
    IF http.net = "error" THEN [threw |-> TRUE, value |-> JsUndefined]
    ELSE IF ~http.body.parses THEN [threw |-> TRUE, value |-> JsUndefined]
    ELSE IF ~http.body.hasChoices THEN [threw |-> TRUE, value |-> JsUndefined]
    ELSE IF http.body.choices = <<>> THEN [threw |-> TRUE, value |-> JsUndefined]
    ELSE IF ~http.body.choices[1].hasMessage
         THEN [threw |-> TRUE, value |-> JsUndefined]
    ELSE IF ~http.body.choices[1].hasContent
         THEN [threw |-> FALSE, value |-> JsUndefined]
    ELSE [threw |-> FALSE, value |-> http.body.choices[1].content]

\* callGPTAPI: the request it posts and the outcome of the call, given what
\* the provider answers.  threw = TRUE: the promise rejects.
callGPTAPI(prompt, http) ==
    LET got == FirstContent(http)
    IN  [request |-> RequestData(prompt), threw |-> got.threw,
         value |-> got.value]

\* The request of a call that posted none.
NoRequest == RequestData(<<>>)

\* sendSnippet posting the command alone instead of the joined history.
sendSnippetOnlyCommand(hist, command) ==
    LET pushed == Append(hist, JsString(command))
    IN  [history |-> pushed, threw |-> FALSE, request |-> RequestData(command)]

\* sendSnippet up to its await: the command is pushed, the history joined and
\* callGPTAPI posts the joined history.  Gives the history and the request
\* posted; threw = TRUE: join threw, nothing is posted and sendSnippet
\* rejects.
sendSnippet(hist, command) ==
    LET pushed == Append(hist, JsString(command))
    IN  IF JoinThrows(pushed)
        THEN [history |-> pushed, threw |-> TRUE, request |-> NoRequest]
        ELSE [history |-> pushed, threw |-> FALSE,
              request |-> RequestData(Join(pushed, <<"\n">>))]

\* sendSnippetResume taking the command off the history when the call
\* rejects.
sendSnippetResumeRollsBack(hist, prompt, http) ==
    LET res == callGPTAPI(prompt, http)
    IN  IF res.threw \/ res.value.type # "string"
        THEN [history |-> SubSeq(hist, 1, Len(hist) - 1), threw |-> TRUE,
              value |-> <<>>]
        ELSE [history |-> Append(hist, res.value), threw |-> FALSE,
              value |-> Trim(res.value.value)]

\* sendSnippetResume pushing the trimmed answer.
sendSnippetResumeTrims(hist, prompt, http) ==
    LET res == callGPTAPI(prompt, http)
    IN  IF res.threw
        THEN [history |-> hist, threw |-> TRUE, value |-> <<>>]
        ELSE IF res.value.type # "string"
        THEN [history |-> Append(hist, res.value), threw |-> TRUE,
              value |-> <<>>]
        ELSE [history |-> Append(hist, JsString(Trim(res.value.value))),
              threw |-> FALSE, value |-> Trim(res.value.value)]

\* sendSnippet after its await, hist being the history when the provider's
\* answer to the prompt posted arrives: callGPTAPI rejects, or its answer is
\* pushed and trimmed.  An answer that is not a string is pushed and then
\* answer.trim() throws.
sendSnippetResume(hist, prompt, http) ==
    LET res == callGPTAPI(prompt, http)
    IN  IF res.threw
        THEN [history |-> hist, threw |-> TRUE, value |-> <<>>]
        ELSE IF res.value.type # "string"
        THEN [history |-> Append(hist, res.value), threw |-> TRUE,
              value |-> <<>>]
        ELSE [history |-> Append(hist, res.value), threw |-> FALSE,
              value |-> Trim(res.value.value)]

(***************************************************************************)
(* Texts the model draws its inputs from                                   *)
(***************************************************************************)
TextHello == <<"H", "e", "l", "l", "o">>
TextWhats == <<"W", "h", "a", "t", "'", "s">>
TextMy == <<"m", "y">>
TextName == <<"n", "a", "m", "e", "?">>
TextHiThere == <<"H", "i", " ", "t", "h", "e", "r", "e">>
TextHiTherePadded ==
    <<"\f", " ", "H", "i", " ", "t", "h", "e", "r", "e", "\n", "U+00A0">>
TextYourName == <<"Y", "o", "u", "r", " ", "n", "a", "m", "e", " ", "i", "s", " ", "F", "e", "l", "i", "x">>
TextFelixJson == <<"{", "\"", "n", "a", "m", "e", "\"", ":", "\"", "F", "e", "l", "i", "x", "\"", "}">>
TextBlank == <<" ">>
TextBrokenJson == <<"{", "\"", "n", "\f", "U+0008", "U+0001">>
TextFelix == <<"F", "e", "l", "i", "x">>

\* Deno.args of a run.
ArgLists == {<<TextHello>>, <<TextWhats, TextMy, TextName>>}

\* Reply texts a provider may put in a candidate's content.
ReplyTexts ==
    {TextHiThere, TextHiTherePadded, TextYourName, TextFelixJson, TextBlank}

\* Contents a provider may put in a candidate that are not strings: a
\* number, an array of a number, null, a boolean and an object, and an
\* object with a field toString.
ContentFive == JsNumber(5)
ContentToString == JsObject(TRUE)
ContentMixed == JsArray(<<JsNumber(-12), JsNull, JsBoolean(TRUE), JsObject(FALSE)>>)

\* One candidate of a response body: whether it has a message, whether the
\* message has a content, and the value of the content.
Candidate(hasMessage, hasContent, content) ==
    [hasMessage |-> hasMessage, hasContent |-> hasContent, content |-> content]

\* A response body: whether JSON.parse accepts it, whether the parsed object
\* has a choices field, and the candidates in it.
Body(parses, hasChoices, choices) ==
    [parses |-> parses, hasChoices |-> hasChoices, choices |-> choices]

\* What a provider can answer to one POST.
HttpResponses ==
    { [net |-> "error", status |-> 0, body |-> Body(FALSE, FALSE, <<>>)] }
    \cup { [net |-> "ok", status |-> st, body |-> b] :
             st \in {200, 500},
             b \in { Body(FALSE, FALSE, <<>>),
                     Body(TRUE, FALSE, <<>>),
                     Body(TRUE, TRUE, <<>>),
                     Body(TRUE, TRUE, <<Candidate(FALSE, FALSE, JsUndefined)>>),
                     Body(TRUE, TRUE, <<Candidate(TRUE, FALSE, JsUndefined)>>) } }
    \cup { [net |-> "ok", status |-> 200,
            body |-> Body(TRUE, TRUE, <<Candidate(TRUE, TRUE, JsString(t))>>)] :
             t \in ReplyTexts }
    \cup { [net |-> "ok", status |-> 200,
            body |-> Body(TRUE, TRUE, <<Candidate(TRUE, TRUE, ContentFive)>>)] }
    \cup { [net |-> "ok", status |-> 200,
            body |-> Body(TRUE, TRUE, <<Candidate(TRUE, TRUE, JsString(TextHiThere)),
                                        Candidate(TRUE, TRUE, JsString(TextYourName))>>)],
           [net |-> "ok", status |-> 500,
            body |-> Body(TRUE, TRUE, <<Candidate(TRUE, TRUE, JsString(TextHiThere))>>)] }

(***************************************************************************)
(* The memory file                                                         *)
(***************************************************************************)
\* memory.json: absent, a file with a content, or a path readTextFile and
\* writeTextFile both reject (state "unreadable", for example a directory).
StoreAbsent == [state |-> "absent", content |-> <<>>]
StoreUnreadable == [state |-> "unreadable", content |-> <<>>]
StoreFile(text) == [state |-> "file", content |-> text]

InitialStores ==
    {StoreAbsent, StoreUnreadable, StoreFile(<<>>), StoreFile(TextFelixJson),
     StoreFile(TextBrokenJson)}

\* The fallback of readMemory.
DefaultMemory == <<"{", "h", "i", "s", "t", "o", "r", "y", ":", "[", "]", "}">>

\* readMemory without the catch's fallback value.
readMemoryNoFallback(st) == st.content

\* readMemory with "{}" as the fallback.
readMemoryEmptyObject(st) ==
    IF st.state = "file" THEN st.content ELSE <<"{", "}">>

\* readMemory: the file's text, or the fallback when readTextFile throws.
readMemory(st) == IF st.state = "file" THEN st.content ELSE DefaultMemory

\* Deno.writeTextFile opening memory.json for writing, created when absent
\* and truncated: whether the open throws, and the file afterwards.
writeTextFileOpen(st, canWrite) ==
    IF st.state = "unreadable" \/ ~canWrite
    THEN [threw |-> TRUE, store |-> st]
    ELSE [threw |-> FALSE, store |-> StoreFile(<<>>)]

\* The file filled with NUL up to the offset off when it is shorter.
RECURSIVE FilledTo(_, _)
FilledTo(text, off) ==
    IF Len(text) >= off THEN text ELSE FilledTo(Append(text, "U+0000"), off)

\* The write that ends the file with a newline after the data.
writeTextFileWriteNewline(st, off, data, n) ==
    LET filled == FilledTo(st.content, off)
        more == IF n = Len(data) THEN n + 1 ELSE n
    IN  StoreFile(SubSeq(filled, 1, off)
                  \o SubSeq(data \o <<"\n">>, off + 1, more)
                  \o SubSeq(filled, more + 1, Len(filled)))

\* Deno.writeTextFile writing to the file it opened: one write puts the
\* tokens off+1..n of data at the offset off of the open file, over what the
\* file holds there and leaving what lies behind.
writeTextFileWrite(st, off, data, n) ==
    LET filled == FilledTo(st.content, off)
    IN  StoreFile(SubSeq(filled, 1, off)
                  \o SubSeq(data, off + 1, n)
                  \o SubSeq(filled, n + 1, Len(filled)))

(***************************************************************************)
(* The script (src/README.md)                                              *)
(***************************************************************************)
\* assist embedding the memory as a JSON string literal.
AssistPromptQuoted(message, mem) ==
    <<"\nYou are my personal assistant. You have a json-based memory to enrich your replies.\n\nThis is your current memory:\n">>
    \o JsonQuote(mem)
    \o <<"\n\nHere is my message to you:\n">>
    \o message
    \o <<"\n">>

\* The template literal of assist.
AssistPrompt(message, mem) ==
    <<"\nYou are my personal assistant. You have a json-based memory to enrich your replies.\n\nThis is your current memory:\n">>
    \o mem
    \o <<"\n\nHere is my message to you:\n">>
    \o message
    \o <<"\n">>

\* The template literal of optimizeMemory.
OptimizePrompt(mem) ==
    <<"\n  Extract and distill the the current state of conversation from the following content. Only answer with json and meaningful fields. Simplify the structure of the json. Don't give explanations.\n\n  ">>
    \o mem
    \o <<"\n  ">>

\* newMemory with the message and the reply in each other's field.
NewMemorySwapped(mem, message, resp) ==
    [memory |-> mem, lastUserMessage |-> resp, lastAssistantResponse |-> message]

\* The newMemory object literal.
NewMemory(mem, message, resp) ==
    [memory |-> mem, lastUserMessage |-> message, lastAssistantResponse |-> resp]

\* JSON.stringify(newMemory).
Stringify(obj) ==
    <<"{\"memory\":">> \o JsonQuote(obj.memory)
    \o <<",\"lastUserMessage\":">> \o JsonQuote(obj.lastUserMessage)
    \o <<",\"lastAssistantResponse\":">> \o JsonQuote(obj.lastAssistantResponse)
    \o <<"}">>

\* console.log with one argument, and with the colour code in front.
LogLine(text) == text
LogBlue(text) == <<"\\x1b[34m", " ">> \o text

NoObject == NewMemory(<<>>, <<>>, <<>>)

VARIABLES
    store,            \* memory.json on disk
    writable,         \* whether memory.json can be written
    runs,             \* processes started so far
    prevSaved,        \* what the previous process wrote, if it wrote
    args,             \* Deno.args
    pc,               \* position of the script
    argMessage, memory, response, newMemory, optimizedMemory,
    history,          \* gptHistory.history
    stdout,           \* lines written by console.log
    exitStatus,       \* -1 while running, then the process's exit status
    failedAt,         \* the statement whose rejection ended the process
    requests,         \* request objects posted by this process
    answers,          \* what the provider answered to each of them
    storeAtStart,     \* memory.json when the process started
    saved,            \* what this process has written to memory.json so
                      \* far, and whether its writeTextFile has resolved
    events,           \* the reads, posts, answers and writes (write: the
                      \* file is opened, wrote: the write has resolved)
    other,            \* the suspended one of two overlapping processes
    calls             \* the sendSnippet calls made on one GPTHistory object

vars ==
    <<store, writable, runs, prevSaved, args, pc, argMessage, memory, response,
      newMemory, optimizedMemory, history, stdout, exitStatus, failedAt,
      requests, answers, storeAtStart, saved, events, other, calls>>

disk == <<store, writable, runs, prevSaved, storeAtStart>>
locals == <<args, argMessage, memory, response, newMemory, optimizedMemory>>

NotSaved == [written |-> FALSE, data |-> <<>>]
Saved(data) == [written |-> TRUE, data |-> data]

\* The prompt of the request this process posted last.
LastPrompt == requests[Len(requests)].messages[1].content

\* The state of a process that has just started: gptHistory = new GPTHistory().
FreshProcess(a) ==
    /\ args = a
    /\ pc = "Idle"
    /\ argMessage = <<>>
    /\ memory = <<>>
    /\ response = <<>>
    /\ newMemory = NoObject
    /\ optimizedMemory = <<>>
    /\ history = <<>>
    /\ stdout = <<>>
    /\ exitStatus = -1
    /\ failedAt = "none"
    /\ requests = <<>>
    /\ answers = <<>>
    /\ saved = NotSaved
    /\ events = <<>>

\* The script-level state of a process, as kept while it is suspended.
Process(id, a, p, msg, mem, resp, obj, opt, hist, out, st, failed, rq, an, sav) ==
    [id |-> id, args |-> a, pc |-> p, argMessage |-> msg, memory |-> mem,
     response |-> resp, newMemory |-> obj, optimizedMemory |-> opt,
     history |-> hist, stdout |-> out, exitStatus |-> st,
     failedAt |-> failed, requests |-> rq, answers |-> an, saved |-> sav]

\* A process that has just started.
StartedProcess(id, a) ==
    Process(id, a, "Idle", <<>>, <<>>, <<>>, NoObject, <<>>, <<>>, <<>>, -1,
            "none", <<>>, <<>>, NotSaved)

\* No second process.
NoOther == StartedProcess("none", <<>>)

\* What the provider can answer when two processes overlap: a failure of the
\* network, or one of two replies.
HttpResponsesTwo ==
    { [net |-> "error", status |-> 0, body |-> Body(FALSE, FALSE, <<>>)] }
    \cup { [net |-> "ok", status |-> 200,
            body |-> Body(TRUE, TRUE, <<Candidate(TRUE, TRUE, JsString(t))>>)] :
             t \in {TextHiTherePadded, TextYourName} }

\* What the provider can answer to the request of the running process.
ProviderAnswers ==
    IF other.id = "none" THEN HttpResponses ELSE HttpResponsesTwo

Init ==
    /\ store \in InitialStores
    /\ writable \in BOOLEAN
    /\ runs = 1
    /\ prevSaved = NotSaved
    /\ storeAtStart = store
    /\ other = NoOther
    /\ calls = <<>>
    /\ \E a \in ArgLists : FreshProcess(a)

\* An uncaught rejection at top level ends the process with status 1.
Abort(where) ==
    /\ pc' = "Exited"
    /\ exitStatus' = 1
    /\ failedAt' = where

\* const argMessage = Deno.args.join(" "); const memory = await readMemory();
RunReadMemory ==
    /\ pc = "Idle"
    /\ argMessage' = Join([i \in 1..Len(args) |-> JsString(args[i])], <<" ">>)
    /\ memory' = readMemory(store)
    /\ events' = Append(events, "read")
    /\ pc' = "MemoryLoaded"
    /\ UNCHANGED <<calls, other, disk, args, response, newMemory, optimizedMemory, history,
                   stdout, exitStatus, failedAt, requests, answers, saved>>

\* const response = await assist(argMessage, memory); up to the await of
\* fetch: the prompt is pushed and the request posted.
RunAssist ==
    /\ pc = "MemoryLoaded"
    /\ LET s == sendSnippet(history, AssistPrompt(argMessage, memory))
       IN  /\ history' = s.history
           /\ IF s.threw
              THEN Abort("primary") /\ UNCHANGED <<requests, events>>
              ELSE /\ requests' = Append(requests, s.request)
                   /\ events' = Append(events, "post")
                   /\ pc' = "Assisting"
                   /\ UNCHANGED <<exitStatus, failedAt>>
    /\ UNCHANGED <<calls, other, disk, locals, stdout, answers, saved>>

\* The return of assist with the rejection caught and the script going on.
RunAssistReturnContinuesOnFailure ==
    /\ pc = "Assisting"
    /\ \E http \in ProviderAnswers :
         LET r == sendSnippetResume(history, LastPrompt, http)
         IN  /\ history' = r.history
             /\ answers' = Append(answers, http)
             /\ response' = r.value
             /\ pc' = "Assisted"
             /\ failedAt' = IF r.threw THEN "primary" ELSE failedAt
             /\ UNCHANGED exitStatus
    /\ events' = Append(events, "answer")
    /\ UNCHANGED <<calls, other, disk, args, argMessage, memory, newMemory, optimizedMemory,
                   stdout, requests, saved>>

\* The provider's answer to the primary call arrives: assist returns the
\* reply or rejects.
RunAssistReturn ==
    /\ pc = "Assisting"
    /\ \E http \in ProviderAnswers :
         LET r == sendSnippetResume(history, LastPrompt, http)
         IN  /\ history' = r.history
             /\ answers' = Append(answers, http)
             /\ IF r.threw
                THEN Abort("primary") /\ UNCHANGED response
                ELSE /\ response' = r.value
                     /\ pc' = "Assisted"
                     /\ UNCHANGED <<exitStatus, failedAt>>
    /\ events' = Append(events, "answer")
    /\ UNCHANGED <<calls, other, disk, args, argMessage, memory, newMemory, optimizedMemory,
                   stdout, requests, saved>>

\* console.log(response);
RunPrintResponse ==
    /\ pc = "Assisted"
    /\ stdout' = Append(stdout, LogLine(response))
    /\ pc' = "Replied"
    /\ UNCHANGED <<calls, other, disk, locals, history, exitStatus, failedAt, requests,
                   answers, saved, events>>

\* const newMemory = {...};
\* const optimizedMemory = await optimizeMemory(JSON.stringify(newMemory));
\* up to the await of fetch.
RunOptimizeMemory ==
    /\ pc = "Replied"
    /\ LET blob == NewMemory(memory, argMessage, response)
           s == sendSnippet(history, OptimizePrompt(Stringify(blob)))
       IN  /\ newMemory' = blob
           /\ history' = s.history
           /\ IF s.threw
              THEN Abort("distill") /\ UNCHANGED <<requests, events>>
              ELSE /\ requests' = Append(requests, s.request)
                   /\ events' = Append(events, "post")
                   /\ pc' = "Distilling"
                   /\ UNCHANGED <<exitStatus, failedAt>>
    /\ UNCHANGED <<calls, other, disk, args, argMessage, memory, response, optimizedMemory,
                   stdout, answers, saved>>

\* The return of optimizeMemory saving the undistilled blob when the call
\* rejects.
RunOptimizeMemoryReturnSavesOnFailure ==
    /\ pc = "Distilling"
    /\ \E http \in ProviderAnswers :
         LET r == sendSnippetResume(history, LastPrompt, http)
         IN  /\ history' = r.history
             /\ answers' = Append(answers, http)
             /\ IF r.threw
                THEN /\ Abort("distill")
                     /\ store' =
                          LET o == writeTextFileOpen(store, writable)
                              blob == Stringify(newMemory)
                          IN  IF o.threw THEN store
                              ELSE writeTextFileWrite(o.store, 0, blob, Len(blob))
                     /\ UNCHANGED optimizedMemory
                ELSE /\ optimizedMemory' = Trim(r.value)
                     /\ pc' = "Distilled"
                     /\ UNCHANGED <<exitStatus, failedAt, store>>
    /\ events' = Append(events, "answer")
    /\ UNCHANGED <<calls, other, writable, runs, prevSaved, storeAtStart, args,
                   argMessage, memory, response, newMemory, stdout, requests,
                   saved>>

\* The return of optimizeMemory posting the request once more when the call
\* rejects.
RunOptimizeMemoryReturnRetries ==
    /\ pc = "Distilling"
    /\ \E http \in ProviderAnswers :
         LET r == sendSnippetResume(history, LastPrompt, http)
         IN  /\ answers' = Append(answers, http)
             /\ IF r.threw /\ Len(requests) < 3
                THEN /\ history' = r.history
                     /\ requests' = Append(requests, requests[Len(requests)])
                     /\ events' = events \o <<"answer", "post">>
                     /\ UNCHANGED <<optimizedMemory, pc, exitStatus, failedAt>>
                ELSE /\ history' = r.history
                     /\ events' = Append(events, "answer")
                     /\ UNCHANGED requests
                     /\ IF r.threw
                        THEN Abort("distill") /\ UNCHANGED optimizedMemory
                        ELSE /\ optimizedMemory' = Trim(r.value)
                             /\ pc' = "Distilled"
                             /\ UNCHANGED <<exitStatus, failedAt>>
    /\ UNCHANGED <<calls, other, disk, args, argMessage, memory, response, newMemory, stdout,
                   saved>>

\* The provider's answer to the distillation call arrives: optimizeMemory
\* returns the trimmed reply or rejects.
RunOptimizeMemoryReturn ==
    /\ pc = "Distilling"
    /\ \E http \in ProviderAnswers :
         LET r == sendSnippetResume(history, LastPrompt, http)
         IN  /\ history' = r.history
             /\ answers' = Append(answers, http)
             /\ IF r.threw
                THEN Abort("distill") /\ UNCHANGED optimizedMemory
                ELSE /\ optimizedMemory' = Trim(r.value)
                     /\ pc' = "Distilled"
                     /\ UNCHANGED <<exitStatus, failedAt>>
    /\ events' = Append(events, "answer")
    /\ UNCHANGED <<calls, other, disk, args, argMessage, memory, response, newMemory, stdout,
                   requests, saved>>

\* console.log("\x1b[34m", optimizedMemory);
RunPrintMemory ==
    /\ pc = "Distilled"
    /\ stdout' = Append(stdout, LogBlue(optimizedMemory))
    /\ pc' = "Printed"
    /\ UNCHANGED <<calls, other, disk, locals, history, exitStatus, failedAt, requests,
                   answers, saved, events>>

\* await Deno.writeTextFile("memory.json", optimizedMemory), its start: the
\* file is opened, created when absent, and truncated; an open that is
\* rejected ends the process.
RunWriteMemory ==
    /\ pc = "Printed"
    /\ LET o == writeTextFileOpen(store, writable)
       IN  /\ store' = o.store
           /\ IF o.threw
              THEN Abort("save")
              ELSE pc' = "Writing" /\ UNCHANGED <<exitStatus, failedAt>>
    /\ events' = Append(events, "write")
    /\ UNCHANGED <<calls, other, writable, runs, prevSaved, storeAtStart, locals,
                   history, stdout, requests, answers, saved>>

\* The write of memory.json writing the undistilled blob.
RunWriteMemoryWriteWritesBlob ==
    /\ pc = "Writing"
    /\ LET data == Stringify(newMemory)
           off == Len(saved.data)
       IN  \/ \E n \in off..Len(data) :
                 /\ n = Len(data) \/ n = off + WriteCut
                 /\ store' = writeTextFileWrite(store, off, data, n)
                 /\ IF n = Len(data)
                    THEN /\ saved' = Saved(data)
                         /\ pc' = "Exited"
                         /\ exitStatus' = 0
                         /\ events' = Append(events, "wrote")
                    ELSE /\ saved' = [written |-> FALSE,
                                      data |-> SubSeq(data, 1, n)]
                         /\ UNCHANGED <<pc, exitStatus, events>>
                 /\ UNCHANGED failedAt
           \/ /\ off < Len(data)
              /\ Abort("save")
              /\ UNCHANGED <<store, saved, events>>
    /\ UNCHANGED <<calls, other, writable, runs, prevSaved, storeAtStart, locals,
                   history, stdout, requests, answers>>

\* Deno.writeTextFile going on: a write puts the next tokens of
\* optimizedMemory, all that are left or only some, in the open file, and
\* after the last one writeTextFile resolves and the script ends; or a write
\* is rejected (an input/output error, a full disk), which ends the process
\* with the file as the writes so far left it.
RunWriteMemoryWrite ==
    /\ pc = "Writing"
    /\ LET data == optimizedMemory
           off == Len(saved.data)
       IN  \/ \E n \in off..Len(data) :
                 /\ n = Len(data) \/ n = off + WriteCut
                 /\ store' = writeTextFileWrite(store, off, data, n)
                 /\ IF n = Len(data)
                    THEN /\ saved' = Saved(data)
                         /\ pc' = "Exited"
                         /\ exitStatus' = 0
                         /\ events' = Append(events, "wrote")
                    ELSE /\ saved' = [written |-> FALSE,
                                      data |-> SubSeq(data, 1, n)]
                         /\ UNCHANGED <<pc, exitStatus, events>>
                 /\ UNCHANGED failedAt
           \/ /\ off < Len(data)
              /\ Abort("save")
              /\ UNCHANGED <<store, saved, events>>
    /\ UNCHANGED <<calls, other, writable, runs, prevSaved, storeAtStart, locals,
                   history, stdout, requests, answers>>

\* The script started again with the history of the process before it.
NewProcessKeepsHistory ==
    /\ pc = "Exited"
    /\ runs < MaxRuns
    /\ runs' = runs + 1
    /\ prevSaved' = saved
    /\ storeAtStart' = store
    /\ \E a \in ArgLists :
         /\ args' = a
         /\ pc' = "Idle"
         /\ argMessage' = <<>>
         /\ memory' = <<>>
         /\ response' = <<>>
         /\ newMemory' = NoObject
         /\ optimizedMemory' = <<>>
         /\ history' = history
         /\ stdout' = <<>>
         /\ exitStatus' = -1
         /\ failedAt' = "none"
         /\ requests' = <<>>
         /\ answers' = <<>>
         /\ saved' = NotSaved
         /\ events' = <<>>
    /\ UNCHANGED <<calls, other, store, writable>>

\* The script is started again, as a new process, on the same memory.json.
NewProcess ==
    /\ pc = "Exited"
    /\ runs < MaxRuns
    /\ runs' = runs + 1
    /\ prevSaved' = saved
    /\ storeAtStart' = store
    /\ \E a \in ArgLists :
         /\ args' = a
         /\ pc' = "Idle"
         /\ argMessage' = <<>>
         /\ memory' = <<>>
         /\ response' = <<>>
         /\ newMemory' = NoObject
         /\ optimizedMemory' = <<>>
         /\ history' = <<>>
         /\ stdout' = <<>>
         /\ exitStatus' = -1
         /\ failedAt' = "none"
         /\ requests' = <<>>
         /\ answers' = <<>>
         /\ saved' = NotSaved
         /\ events' = <<>>
    /\ UNCHANGED <<calls, other, store, writable>>

Next ==
    \/ RunReadMemory
    \/ RunAssist
    \/ RunAssistReturn
    \/ RunPrintResponse
    \/ RunOptimizeMemory
    \/ RunOptimizeMemoryReturn
    \/ RunPrintMemory
    \/ RunWriteMemory
    \/ RunWriteMemoryWrite
    \/ NewProcess

Spec == Init /\ [][Next]_vars

\* The script with every step of a started process taken in the end: each
\* provider call and each operation on memory.json returns, with a result or
\* an error, and the script goes on from it.
LiveSpec ==
    /\ Spec
    /\ WF_vars(RunReadMemory)
    /\ WF_vars(RunAssist)
    /\ WF_vars(RunAssistReturn)
    /\ WF_vars(RunPrintResponse)
    /\ WF_vars(RunOptimizeMemory)
    /\ WF_vars(RunOptimizeMemoryReturn)
    /\ WF_vars(RunPrintMemory)
    /\ WF_vars(RunWriteMemory)
    /\ WF_vars(RunWriteMemoryWrite)

(***************************************************************************)
(* Two invocations of the script overlapping on the same memory.json       *)
(***************************************************************************)
\* Process A, with the message Hello, runs first; process B, with the message
\* What's my name?, is started too and waits for the scheduler.
InitTwo ==
    /\ store \in {StoreAbsent, StoreFile(TextFelixJson)}
    /\ writable = TRUE
    /\ runs = 1
    /\ prevSaved = NotSaved
    /\ storeAtStart = store
    /\ other = StartedProcess("B", <<TextWhats, TextMy, TextName>>)
    /\ calls = <<>>
    /\ FreshProcess(<<TextHello>>)

\* The process that is running.
Current == IF other.id = "B" THEN "A" ELSE "B"

\* The scheduler suspends the running process, between two of its steps, and
\* resumes the other one.
Switch ==
    /\ other.id \in {"A", "B"}
    /\ CountOf(events, "switch") < MaxSwitches
    /\ other' = Process(Current, args, pc, argMessage, memory, response,
                        newMemory, optimizedMemory, history, stdout,
                        exitStatus, failedAt, requests, answers, saved)
    /\ args' = other.args
    /\ pc' = other.pc
    /\ argMessage' = other.argMessage
    /\ memory' = other.memory
    /\ response' = other.response
    /\ newMemory' = other.newMemory
    /\ optimizedMemory' = other.optimizedMemory
    /\ history' = other.history
    /\ stdout' = other.stdout
    /\ exitStatus' = other.exitStatus
    /\ failedAt' = other.failedAt
    /\ requests' = other.requests
    /\ answers' = other.answers
    /\ saved' = other.saved
    /\ events' = Append(events, "switch")
    /\ UNCHANGED <<calls, disk>>

NextTwo ==
    \/ RunReadMemory
    \/ RunAssist
    \/ RunAssistReturn
    \/ RunPrintResponse
    \/ RunOptimizeMemory
    \/ RunOptimizeMemoryReturn
    \/ RunPrintMemory
    \/ RunWriteMemory
    \/ RunWriteMemoryWrite
    \/ Switch

SpecTwo == InitTwo /\ [][NextTwo]_vars

(***************************************************************************)
(* A caller of GPTHistory: one object, sendSnippet called again and again, *)
(* with or without waiting for the calls before                            *)
(***************************************************************************)
\* The commands the caller sends.
Commands == {TextHello, TextName}

\* A sendSnippet call: the length of the history when it was made, its
\* command, and, once it has returned, whether it rejected and its result.
\* request is the place of the request it posted in requests, answer the
\* place of the provider's answer to it in answers, pushed the place in the
\* history where it pushed that answer; 0 stands for none.
Call(before, command, done, threw, value, request, answer, pushed) ==
    [before |-> before, command |-> command, done |-> done, threw |-> threw,
     value |-> value, request |-> request, answer |-> answer,
     pushed |-> pushed]

\* What the provider can answer to the caller: a failure of the network, a
\* candidate whose message has no content, one whose content is not a
\* string, or one of two replies.
HttpResponsesCalls ==
    { [net |-> "error", status |-> 0, body |-> Body(FALSE, FALSE, <<>>)],
      [net |-> "ok", status |-> 200,
       body |-> Body(TRUE, TRUE, <<Candidate(TRUE, FALSE, JsUndefined)>>)],
      [net |-> "ok", status |-> 200,
       body |-> Body(TRUE, TRUE, <<Candidate(TRUE, TRUE, ContentMixed)>>)],
      [net |-> "ok", status |-> 200,
       body |-> Body(TRUE, TRUE, <<Candidate(TRUE, TRUE, ContentToString)>>)] }
    \cup { [net |-> "ok", status |-> 200,
            body |-> Body(TRUE, TRUE, <<Candidate(TRUE, TRUE, JsString(t))>>)] :
             t \in {TextHiTherePadded, TextYourName} }

\* The calls the caller is waiting for.
Pending == {k \in 1..Len(calls) : ~calls[k].done}

InitCalls ==
    /\ store = StoreAbsent
    /\ writable = TRUE
    /\ runs = 1
    /\ prevSaved = NotSaved
    /\ storeAtStart = store
    /\ other = NoOther
    /\ calls = <<>>
    /\ args = <<>>
    /\ pc = "Ready"
    /\ argMessage = <<>>
    /\ memory = <<>>
    /\ response = <<>>
    /\ newMemory = NoObject
    /\ optimizedMemory = <<>>
    /\ history = <<>>
    /\ stdout = <<>>
    /\ exitStatus = -1
    /\ failedAt = "none"
    /\ requests = <<>>
    /\ answers = <<>>
    /\ saved = NotSaved
    /\ events = <<>>

script ==
    <<store, writable, runs, prevSaved, storeAtStart, other, args, argMessage,
      memory, response, newMemory, optimizedMemory, stdout, exitStatus,
      failedAt, saved>>

\* The caller calls sendSnippet(command): up to the await of fetch, or to
\* the rejection when join throws, which the caller catches.  Nothing in
\* sendSnippet waits for the calls made before.
CallSendSnippet ==
    /\ Len(calls) < MaxCalls
    /\ \E command \in Commands :
         LET s == sendSnippet(history, command)
         IN  /\ history' = s.history
             /\ IF s.threw
                THEN /\ calls' = Append(calls, Call(Len(history), command, TRUE,
                                                    TRUE, <<>>, 0, 0, 0))
                     /\ events' = Append(events, "throw")
                     /\ UNCHANGED <<requests, pc>>
                ELSE /\ requests' = Append(requests, s.request)
                     /\ calls' = Append(calls, Call(Len(history), command, FALSE,
                                                    FALSE, <<>>,
                                                    Len(requests) + 1, 0, 0))
                     /\ events' = Append(events, "post")
                     /\ pc' = "Awaiting"
    /\ UNCHANGED <<script, answers>>

\* The provider's answer to one of the pending calls arrives: that call of
\* sendSnippet returns or rejects; the caller catches a rejection and goes
\* on.
ReturnSendSnippet ==
    /\ \E k \in Pending, http \in HttpResponsesCalls :
         LET c == calls[k]
             r == sendSnippetResume(history,
                                    requests[c.request].messages[1].content,
                                    http)
         IN  /\ history' = r.history
             /\ answers' = Append(answers, http)
             /\ calls' = [calls EXCEPT ![k] =
                            Call(c.before, c.command, TRUE, r.threw, r.value,
                                 c.request, Len(answers) + 1,
                                 IF Len(r.history) > Len(history)
                                 THEN Len(r.history) ELSE 0)]
             /\ pc' = IF Pending = {k} THEN "Ready" ELSE "Awaiting"
    /\ events' = Append(events, "answer")
    /\ UNCHANGED <<script, requests>>

NextCalls ==
    \/ CallSendSnippet
    \/ ReturnSendSnippet

SpecCalls == InitCalls /\ [][NextCalls]_vars

(***************************************************************************)
(* Properties                                                              *)
(***************************************************************************)
\* The reply text the provider gave to call k of this process, as
\* sendSnippet returns it.
ReplyOf(k) == Trim(answers[k].body.choices[1].content.value)

\* C1: when the primary call succeeded and the distillation call then
\* failed, the reply is on standard output and memory.json is what it was
\* when the process started.
C1_DistillFailureKeepsReplyAndMemory ==
    (pc = "Exited" /\ failedAt = "distill") =>
        /\ stdout = <<LogLine(ReplyOf(1))>>
        /\ store = storeAtStart
        /\ ~saved.written

C1_Witness ==
    /\ pc = "Exited"
    /\ failedAt = "distill"
    /\ storeAtStart = StoreFile(TextFelixJson)
    /\ writable
    /\ stdout = <<TextHiThere>>

\* C2: when the primary call failed, nothing is on standard output, the
\* process ends with a nonzero status and memory.json was not written.
C2_PrimaryFailureNoReplyNoWrite ==
    failedAt = "primary" =>
        /\ pc = "Exited"
        /\ stdout = <<>>
        /\ exitStatus # 0
        /\ ~saved.written
        /\ store = storeAtStart

C2_Witness ==
    /\ failedAt = "primary"
    /\ pc = "Exited"
    /\ writable
    /\ storeAtStart = StoreFile(TextFelixJson)

\* C3: a process whose primary call succeeded ends with status zero, also
\* when the distillation call or the write of memory.json failed.
C3_ExitZeroAfterReply ==
    (pc = "Exited" /\ failedAt # "primary") => exitStatus = 0

\* C4: on a memory.json that does not exist, readMemory does not fail and
\* gives the fallback value.
C4_LoadFreshGivesDefault ==
    (storeAtStart = StoreAbsent /\ pc # "Idle") =>
        /\ memory = DefaultMemory
        /\ Len(requests) >= 1 =>
             requests[1].messages[1].content = AssistPrompt(argMessage, DefaultMemory)

C4_Witness ==
    /\ storeAtStart = StoreAbsent
    /\ pc = "MemoryLoaded"
    /\ memory = DefaultMemory

\* C5: what a process wrote to memory.json is what readMemory gives the next
\* process, token for token.
C5_SaveThenLoadRoundTrip ==
    (prevSaved.written /\ pc # "Idle") => memory = prevSaved.data

C5_Witness ==
    /\ prevSaved.written
    /\ prevSaved.data = TextFelixJson
    /\ pc = "MemoryLoaded"
    /\ memory = TextFelixJson

\* Number of tokens the texts of the turns of h have together.
RECURSIVE TextLenSum(_)
TextLenSum(h) ==
    IF h = <<>> THEN 0 ELSE Len(ElementText(Head(h))) + TextLenSum(Tail(h))

\* Number of tokens in front of turn i in a rendering of h.
TurnStart(h, i) == TextLenSum(SubSeq(h, 1, i - 1)) + (i - 1)

\* r is the turns of h, each once, in the order of h, a newline between two.
RendersInOrder(h, r) ==
    /\ Len(r) = TextLenSum(h) + (Len(h) - 1)
    /\ \A i \in 1..Len(h) :
         SubSeq(r, TurnStart(h, i) + 1, TurnStart(h, i) + Len(ElementText(h[i])))
           = ElementText(h[i])
    /\ \A i \in 1..(Len(h) - 1) : r[TurnStart(h, i + 1)] = "\n"

\* The history as call k of this process rendered it: the turns up to and
\* including the command of call k.
HistoryAtCall(k) == SubSeq(history, 1, 2 * k - 1)

\* The prompt call k of this process transmitted.
PromptOf(k) == requests[k].messages[1].content

\* C6: every prompt transmitted is the turns appended so far in append
\* order, each turn's text once, joined with the separator; rendering the
\* same turns again gives the same text.
C6_RenderKeepsOrderAndContent ==
    \A k \in 1..Len(requests) :
        /\ RendersInOrder(HistoryAtCall(k), PromptOf(k))
        /\ Join(HistoryAtCall(k), <<"\n">>) = PromptOf(k)

C6_Witness ==
    /\ Len(requests) = 2
    /\ Len(history) = 4
    /\ history[2] = JsString(TextHiTherePadded)
    /\ RendersInOrder(HistoryAtCall(2), PromptOf(2))

\* C7: the prompt of the primary call contains the memory readMemory gave
\* and the user message, both token for token; with {"name":"Felix"} as the
\* memory it contains Felix.
C7_PrimaryPromptEmbedsMemoryAndMessage ==
    Len(requests) >= 1 =>
        /\ Contains(PromptOf(1), memory)
        /\ Contains(PromptOf(1), argMessage)
        /\ memory = readMemory(storeAtStart)
        /\ (memory = TextFelixJson => Contains(PromptOf(1), TextFelix))

C7_Witness ==
    /\ Len(requests) = 1
    /\ memory = TextFelixJson
    /\ argMessage = TextWhats \o <<" ">> \o TextMy \o <<" ">> \o TextName
    /\ Contains(PromptOf(1), TextFelix)

\* The provider answered call k with status 200 and the one reply text.
AnsweredWith(k, text) ==
    answers[k] = [net |-> "ok", status |-> 200,
                  body |-> Body(TRUE, TRUE, <<Candidate(TRUE, TRUE, JsString(text))>>)]

\* The end of a run on a writable, absent memory.json with the message Hello
\* and a provider that replies Hi there to both calls, no write of the file
\* being rejected.
ScenarioHelloDone ==
    /\ pc = "Exited"
    /\ storeAtStart = StoreAbsent
    /\ writable
    /\ failedAt = "none"
    /\ args = <<TextHello>>
    /\ Len(answers) = 2
    /\ AnsweredWith(1, TextHiThere)
    /\ AnsweredWith(2, TextHiThere)

\* What the scenario gives apart from the blob: the output, the prompt of the
\* distillation call and the file afterwards.
ScenarioHelloOutcome ==
    /\ stdout[1] = TextHiThere
    /\ Contains(PromptOf(2), Stringify(newMemory))
    /\ store = StoreFile(TextHiThere)

\* C8 as stated: the blob handed to distillation carries "{}" as memory.
C8_ScenarioBlobEmptyObject ==
    ScenarioHelloDone =>
        /\ ScenarioHelloOutcome
        /\ newMemory = NewMemory(<<"{", "}">>, TextHello, TextHiThere)

\* C8, amended: the run outputs Hi there, the blob handed to distillation is
\* {memory: "{history:[]}", lastUserMessage: "Hello", lastAssistantResponse:
\* "Hi there"}, and memory.json afterwards holds the distillation reply.
C8_ScenarioBlobDefaultMemory ==
    ScenarioHelloDone =>
        /\ ScenarioHelloOutcome
        /\ newMemory = NewMemory(DefaultMemory, TextHello, TextHiThere)

C8_Witness ==
    /\ ScenarioHelloDone
    /\ newMemory.memory = DefaultMemory
    /\ store = StoreFile(TextHiThere)

\* The provider answered, but with a status outside 200..299, a body without
\* the expected fields, or an empty candidate list.
BadAnswer(http) ==
    /\ http.net = "ok"
    /\ \/ http.status \notin 200..299
       \/ ~http.body.parses
       \/ ~http.body.hasChoices
       \/ http.body.choices = <<>>
       \/ ~http.body.choices[1].hasMessage
       \/ ~http.body.choices[1].hasContent

\* C9: a call the provider answers with a non-2xx status, a body missing the
\* expected fields or an empty candidate list fails: the process ends at that
\* call.
C9_BadAnswerFailsCall ==
    \A k \in 1..Len(answers) :
        BadAnswer(answers[k]) =>
            failedAt = (IF k = 1 THEN "primary" ELSE "distill")

\* C10: when memory.json holds corrupt content, readMemory gives the
\* fallback value and the primary prompt does not carry the corrupt content.
C10_CorruptStoreFallsBack ==
    (storeAtStart = StoreFile(TextBrokenJson) /\ pc # "Idle") =>
        /\ memory = DefaultMemory
        /\ Len(requests) >= 1 => ~Contains(PromptOf(1), TextBrokenJson)

\* C11: a process posts at most two requests, each request but the first
\* right after nothing but the answer to the one before (never two requests
\* outstanding), the primary one first; it reads memory.json at most once and
\* writes it at most once.
C11_AtMostTwoSequentialCallsOneReadOneWrite ==
    /\ CountOf(events, "post") <= 2
    /\ CountOf(events, "post") = Len(requests)
    /\ CountOf(events, "answer") = Len(answers)
    /\ Len(requests) - Len(answers) \in {0, 1}
    /\ \A i \in 1..Len(events) :
         \A j \in (i + 1)..Len(events) :
            (events[i] = "post" /\ events[j] = "post") =>
                \E m \in (i + 1)..(j - 1) : events[m] = "answer"
    /\ CountOf(events, "read") <= 1
    /\ CountOf(events, "write") <= 1
    /\ Len(requests) = 2 =>
         /\ FirstContent(answers[1]).value.type = "string"
         /\ PromptOf(1) = AssistPrompt(argMessage, memory)

C11_Witness ==
    /\ pc = "Exited"
    /\ events = <<"read", "post", "answer", "post", "answer", "write", "wrote">>
    /\ saved.written

\* The command of call k of this process: the turn sendSnippet pushed for it.
CommandOf(k) == ElementText(history[2 * k - 1])

\* The content the provider put in the first candidate of its answer to
\* call k, untrimmed.
RawReplyOf(k) == answers[k].body.choices[1].content.value

\* C12 as stated: the request of a call is made from that call's prompt
\* argument alone; the distillation request carries the distillation
\* instruction with the blob and nothing of the primary call.
C12_RequestFromCommandOnly ==
    \A k \in 1..Len(requests) :
        /\ requests[k] = RequestData(CommandOf(k))
        /\ k = 2 => PromptOf(2) = OptimizePrompt(Stringify(newMemory))

\* C12, amended: the request is the joined history of the GPTHistory object,
\* the command last, as the only message; the distillation request of a run
\* is the primary prompt, the primary reply untrimmed and the distillation
\* instruction with the blob, a newline between them.
C12_RequestFromHistoryAndCommand ==
    \A k \in 1..Len(requests) :
        /\ requests[k] = RequestData(Join(HistoryAtCall(k), <<"\n">>))
        /\ Len(requests[k].messages) = 1
        /\ k = 1 => PromptOf(1) = CommandOf(1)
        /\ k = 2 =>
             PromptOf(2) = AssistPrompt(argMessage, memory) \o <<"\n">>
                           \o RawReplyOf(1) \o <<"\n">>
                           \o OptimizePrompt(Stringify(newMemory))

C12_Witness ==
    /\ Len(requests) = 2
    /\ RawReplyOf(1) = TextHiTherePadded
    /\ Contains(PromptOf(2), PromptOf(1))
    /\ PromptOf(2) # CommandOf(2)

\* The process that made event i of the log: A runs until the first switch.
Owner(i) ==
    IF CountOf(SubSeq(events, 1, i - 1), "switch") % 2 = 0 THEN "A" ELSE "B"

\* Where in the log process id made its event e.
EventIndex(id, e) ==
    CHOOSE i \in 1..Len(events) : events[i] = e /\ Owner(i) = id

\* What process id read from memory.json and what it wrote to it.
MemoryOf(id) == IF Current = id THEN memory ELSE other.memory
SavedOf(id) == IF Current = id THEN saved ELSE other.saved

\* Both processes have ended, each having written memory.json.
BothSaved ==
    /\ other.id \in {"A", "B"}
    /\ pc = "Exited"
    /\ other.pc = "Exited"
    /\ saved.written
    /\ other.saved.written

\* The file is what q wrote, and q made it from what p wrote.
SerialOrder(p, q) ==
    /\ MemoryOf(q) = SavedOf(p).data
    /\ store = StoreFile(SavedOf(q).data)

\* C13 as stated: however the steps of two runs interleave, the final
\* memory.json is what one run made from what the other wrote.
C13_NoLostUpdate ==
    BothSaved => (SerialOrder("A", "B") \/ SerialOrder("B", "A"))

\* C13, amended: when the write of one run has resolved before the other
\* run reads, the final memory.json is what the second made from what the
\* first wrote.
C13_SerialWhenNotOverlapping ==
    BothSaved =>
        \A p, q \in {"A", "B"} :
            (p # q /\ EventIndex(p, "wrote") < EventIndex(q, "read")) =>
                SerialOrder(p, q)

C13_Witness ==
    /\ BothSaved
    /\ EventIndex("A", "wrote") < EventIndex("B", "read")
    /\ SavedOf("A").data = TextHiThere
    /\ MemoryOf("B") = TextHiThere
    /\ store = StoreFile(TextYourName)

\* The state of the run in the terms of the specification's state machine.
\* DistillFailed is its end for a run that replied and did not persist, the
\* memory being what it was before the run, whether the distillation call or
\* the save failed.  PrimaryFailed and SaveFailed are the two ends that
\* machine does not name: the primary call failed, and the save failed
\* having changed memory.json.
RunState ==
    CASE pc = "Idle" -> "Idle"
      [] pc \in {"MemoryLoaded", "Assisting", "Assisted"} -> "MemoryLoaded"
      [] pc = "Replied" -> "Replied"
      [] pc \in {"Distilling", "Distilled", "Printed", "Writing"} -> "Distilling"
      [] pc = "Exited" /\ failedAt = "none" -> "Persisted"
      [] pc = "Exited" /\ failedAt = "primary" -> "PrimaryFailed"
      [] pc = "Exited" /\ failedAt \in {"distill", "save"}
           /\ store = storeAtStart -> "DistillFailed"
      [] pc = "Exited" /\ failedAt \in {"distill", "save"}
           /\ store # storeAtStart -> "SaveFailed"

RunEnded == RunState \in {"Persisted", "DistillFailed", "PrimaryFailed", "SaveFailed"}

RunStep(from, to) ==
    \/ from = to
    \/ from = "Idle" /\ to = "MemoryLoaded"
    \/ from = "MemoryLoaded" /\ to \in {"Replied", "PrimaryFailed"}
    \/ from = "Replied" /\ to = "Distilling"
    \/ from = "Distilling" /\ to \in {"Persisted", "DistillFailed", "SaveFailed"}

\* p is a beginning of t, and not the whole of it.
IsPrefix(p, t) == Len(p) <= Len(t) /\ SubSeq(t, 1, Len(p)) = p
IsCut(p, t) == IsPrefix(p, t) /\ p # t

C15_BlobIsMemoryMessageReply ==
    Len(requests) = 2 =>
        /\ DOMAIN newMemory = {"memory", "lastUserMessage", "lastAssistantResponse"}
        /\ newMemory.memory = readMemory(storeAtStart)
        /\ newMemory.memory = memory
        /\ newMemory.lastUserMessage = argMessage
        /\ newMemory.lastAssistantResponse = stdout[1]
        /\ stdout[1] = LogLine(ReplyOf(1))
        /\ CommandOf(2) = OptimizePrompt(Stringify(newMemory))

C15_Witness ==
    /\ Len(requests) = 2
    /\ RawReplyOf(1) = TextHiTherePadded
    /\ newMemory = [memory |-> TextFelixJson,
                    lastUserMessage |-> TextHello,
                    lastAssistantResponse |-> TextHiThere]

\* C16: the history only grows at its end: each step leaves every entry it
\* had in its place, whether a call was made, returned or rejected.
C16_HistoryAppendOnly ==
    [][ /\ Len(history') >= Len(history)
        /\ SubSeq(history', 1, Len(history)) = history ]_vars

C16_Witness ==
    /\ Len(calls) = 3
    /\ calls[1].done /\ calls[1].threw
    /\ calls[2].done /\ ~calls[2].threw
    /\ calls[3].done /\ calls[3].threw
    /\ Len(history) = 4

\* C17: a process starts with an empty history, and its primary request is
\* made from the content of memory.json at its start and its own message
\* alone, whatever the processes before it sent and received.
C17_PrimaryRequestFromStoreAndMessage ==
    /\ pc = "Idle" => history = <<>>
    /\ pc \in {"Idle", "MemoryLoaded"} => requests = <<>>
    /\ Len(requests) >= 1 =>
         requests[1] =
            RequestData(AssistPrompt(
                Join([i \in 1..Len(args) |-> JsString(args[i])], <<" ">>),
                readMemory(storeAtStart)))

C17_Witness ==
    /\ runs = 2
    /\ prevSaved.written
    /\ storeAtStart = StoreFile(TextHiThere)
    /\ Len(requests) = 1
    /\ PromptOf(1) = AssistPrompt(TextHello, TextHiThere)

\* C18: memory.json changes only in the steps of writeTextFile, which come
\* after the distillation call returned a reply, once in a run; every token
\* written is a token of that reply with the white space at its ends
\* removed, in its place, and when writeTextFile resolves the file is that
\* trimmed reply, whatever the reply is.
C18_OnlyDistilledReplyIsWritten ==
    [][ /\ (store' # store \/ saved' # saved) =>
             /\ pc \in {"Printed", "Writing"} \/ (pc = "Exited" /\ pc' = "Idle")
             /\ pc' # "Idle" =>
                  /\ Len(answers) = 2
                  /\ FirstContent(answers[2]).value.type = "string"
                  /\ CountOf(events', "write") = 1
                  /\ store' = StoreFile(saved'.data)
                  /\ IsPrefix(saved'.data, Trim(RawReplyOf(2)))
        /\ (saved'.written /\ ~saved.written) =>
             /\ saved'.data = Trim(RawReplyOf(2))
             /\ store' = StoreFile(Trim(RawReplyOf(2)))
        /\ events' = Append(events, "write") =>
             (pc = "Printed" /\ CountOf(events, "write") = 0) ]_vars

C18_Witness ==
    /\ saved.written
    /\ RawReplyOf(2) = TextBlank
    /\ storeAtStart = StoreFile(TextFelixJson)
    /\ store = StoreFile(<<>>)

\* The provider's answer to call k of the caller.
AnswerTo(k) == answers[calls[k].answer]

\* The places of the history that call k filled, and their number.
Added(k) ==
    {calls[k].before + 1}
    \cup (IF calls[k].pushed > 0 THEN {calls[k].pushed} ELSE {})
Growth(k) == Cardinality(Added(k))

\* Every entry of the history was added by one call, and by one only.
EntriesAreTheCalls ==
    /\ \A i \in 1..Len(history) : \E k \in 1..Len(calls) : i \in Added(k)
    /\ \A k \in 1..Len(calls) : Added(k) \subseteq 1..Len(history)
    /\ \A k, j \in 1..Len(calls) : k # j => Added(k) \cap Added(j) = {}

\* The prompt call k of the caller transmitted.
PromptOfCall(k) == requests[calls[k].request].messages[1].content

\* What every call leaves, whatever its outcome: its command is pushed
\* before the request goes out, is in the request, and is in the request of
\* every later call on the object; nothing else is added while it waits.  A
\* call transmits no request when the join of the history throws, and then
\* rejects with nothing but the command added.
CommandPushedFirst(k) ==
    /\ history[calls[k].before + 1] = JsString(calls[k].command)
    /\ ~calls[k].done =>
         (Growth(k) = 1 /\ calls[k].answer = 0 /\ calls[k].request > 0)
    /\ calls[k].request = 0 <=>
         JoinThrows(SubSeq(history, 1, calls[k].before + 1))
    /\ calls[k].request = 0 =>
         (calls[k].done /\ calls[k].threw /\ Growth(k) = 1)
    /\ \A j \in k..Len(calls) :
         calls[j].request > 0 =>
            /\ Contains(PromptOfCall(j), calls[k].command)
            /\ PromptOfCall(j) =
                 Join(SubSeq(history, 1, calls[j].before + 1), <<"\n">>)

\* What a call that returned leaves: the command, then, after it, the answer
\* untrimmed, next to the command when no other call was made or answered in
\* between; the caller gets the answer trimmed.
SucceededGrowsByTwo(k) ==
    (calls[k].done /\ ~calls[k].threw) =>
        /\ Growth(k) = 2
        /\ calls[k].pushed > calls[k].before + 1
        /\ history[calls[k].pushed] = AnswerTo(k).body.choices[1].content
        /\ AnswerTo(k).body.choices[1].content.type = "string"
        /\ calls[k].value = Trim(AnswerTo(k).body.choices[1].content.value)

\* C19: sendSnippet pushes its command before the request goes out; a call
\* that returned added the command and then the untrimmed answer; a call that
\* failed added the command and nothing else; the command is in the prompt
\* of every later call on the object.
C19_FailedCallGrowsByOne ==
    /\ EntriesAreTheCalls
    /\ \A k \in 1..Len(calls) :
        /\ CommandPushedFirst(k)
        /\ SucceededGrowsByTwo(k)
        /\ (calls[k].done /\ calls[k].threw) => Growth(k) = 1

====
